---- MODULE Spec2Model ----
(***************************************************************************)
(* Model of the render farm log parser (src/rendparse/parser.py,           *)
(* src/rendparse/helpers.py).                                              *)
(*                                                                         *)
(* Text (file names, CSV fields, filter arguments) is a sequence of        *)
(* one-character strings, so that strip(), int(), float() and the file     *)
(* name pattern are computed character by character as Python 2.7 does.    *)
(* Python's None is the empty tuple NONE and a value v that may be None is *)
(* carried as the one-element tuple <<v>>.                                 *)
(*                                                                         *)
(* Numbers.  A Python int is a sign and a magnitude of any size; a float   *)
(* is an IEEE 754 double, and float(), +, / and int / int round to the     *)
(* nearest double as CPython does.  The text print_spec writes for a       *)
(* number is not modelled.                                                 *)
(* File names are base names: os.path.join(path, rf) is not modelled.      *)
(***************************************************************************)
EXTENDS Integers, Sequences, FiniteSets

VARIABLES
    pc,         \* where the parser is: "idle" (no call in progress), or inside
                \* run_parser at "listdir", "select" (line 77), "loop" (line
                \* 79, between two files) or "stream" (filter_rows, a file open)
    stats,      \* RenderFarmParser._stats: NONE or <<RenderStats>>
    filters,    \* run_parser: the filters dictionary of the current run
    listing,    \* run_parser: the value of os.listdir(path) while it is used
    filenames,  \* run_parser: the selected files not yet iterated over
    openFiles,  \* the files whose handle is open
    rowsRead,   \* the number of rows read by the current run
    seen,       \* history: the rows read by the current run, in order (each
                \* by its index in Rows)
    folded,     \* history: the records passed to RenderStats.update
    completed,  \* history: some run_parser call has returned
    result      \* the outcome of the current or the last call

vars == <<pc, stats, filters, listing, filenames, openFiles, rowsRead,
          seen, folded, completed, result>>

\* ------------------------------------------------------------------ bounds
MaxRows == 3
MaxFiles == 2

\* ------------------------------------------------------- optional values
NONE == <<>>
Some(v) == <<v>>
IsNone(o) == o = NONE
Val(o) == o[1]

\* ------------------------------------------------------------ characters
Digits == {"0", "1", "2", "3", "4", "5", "6", "7", "8", "9"}
DigitSeq == <<"0", "1", "2", "3", "4", "5", "6", "7", "8", "9">>
DigitVal(c) == (CHOOSE i \in 1..10 : DigitSeq[i] = c) - 1

\* the vertical tab, chr(11), for which TLA+ has no notation
VT == "\\v"
Whitespace == {" ", "\t", "\n", VT, "\f", "\r"}

SetMax(S) == CHOOSE i \in S : \A j \in S : j <= i
SetMin(S) == CHOOSE i \in S : \A j \in S : i <= j

lstrip(s) ==
    IF s = <<>> \/ s[1] \notin Whitespace THEN s
    ELSE LET black == {i \in 1..Len(s) : s[i] \notin Whitespace}
         IN  IF black = {} THEN <<>> ELSE SubSeq(s, SetMin(black), Len(s))

rstrip(s) ==
    IF s = <<>> \/ s[Len(s)] \notin Whitespace THEN s
    ELSE LET black == {i \in 1..Len(s) : s[i] \notin Whitespace}
         IN  IF black = {} THEN <<>> ELSE SubSeq(s, 1, SetMax(black))

strip(s) == rstrip(lstrip(s))

AllDigits(s) == \A i \in 1..Len(s) : s[i] \in Digits

RECURSIVE DigitsValue(_)
DigitsValue(s) ==
    IF s = <<>> THEN 0
    ELSE 10 * DigitsValue(SubSeq(s, 1, Len(s) - 1)) + DigitVal(s[Len(s)])

\* a digit string without its leading zeros
Significant(s) ==
    LET nonzero == {i \in 1..Len(s) : s[i] # "0"}
    IN  IF nonzero = {} THEN <<>> ELSE SubSeq(s, SetMin(nonzero), Len(s))

HasSign(t) == t # <<>> /\ Head(t) \in {"+", "-"}
Unsigned(t) == IF HasSign(t) THEN Tail(t) ELSE t
SignOf(t) == IF t # <<>> /\ Head(t) = "-" THEN -1 ELSE 1

\* -------------------------------------------------------------- naturals
\* A natural number of any size (a Python long, the significand of a
\* float) is the sequence of its digits in base Base, the least significant
\* first, without leading zeros; 0 is <<>>.  Sequences are halved rather
\* than walked, so that the depth of evaluation stays logarithmic.
LimbBits == 15
Base == 32768

NatTrim(a) ==
    IF a = <<>> \/ a[Len(a)] # 0 THEN a
    ELSE LET nz == {i \in 1..Len(a) : a[i] # 0}
         IN  IF nz = {} THEN <<>> ELSE SubSeq(a, 1, SetMax(nz))

\* the natural k, for 0 <= k < 2^30
NatOfInt(k) == NatTrim(<<k % Base, k \div Base>>)

NatPad(a, n) == [i \in 1..n |-> IF i <= Len(a) THEN a[i] ELSE 0]

RECURSIVE NatAddC(_, _, _)
\* a + b + c for digit strings of one length: the digits and the carry
NatAddC(a, b, c) ==
    IF Len(a) = 1
    THEN LET t == a[1] + b[1] + c
         IN  [r |-> <<t % Base>>, c |-> t \div Base]
    ELSE LET h == Len(a) \div 2
             lo == NatAddC(SubSeq(a, 1, h), SubSeq(b, 1, h), c)
             hi == NatAddC(SubSeq(a, h + 1, Len(a)),
                           SubSeq(b, h + 1, Len(a)), lo.c)
         IN  [r |-> lo.r \o hi.r, c |-> hi.c]

NatAdd(a, b) ==
    IF a = <<>> THEN b
    ELSE IF b = <<>> THEN a
    ELSE LET n == IF Len(a) > Len(b) THEN Len(a) ELSE Len(b)
             s == NatAddC(NatPad(a, n), NatPad(b, n), 0)
         IN  IF s.c = 0 THEN s.r ELSE Append(s.r, s.c)

RECURSIVE NatSubB(_, _, _)
\* a - b - c for digit strings of one length: the digits and the borrow
NatSubB(a, b, c) ==
    IF Len(a) = 1
    THEN LET t == a[1] - b[1] - c
         IN  IF t < 0 THEN [r |-> <<t + Base>>, c |-> 1]
             ELSE [r |-> <<t>>, c |-> 0]
    ELSE LET h == Len(a) \div 2
             lo == NatSubB(SubSeq(a, 1, h), SubSeq(b, 1, h), c)
             hi == NatSubB(SubSeq(a, h + 1, Len(a)),
                           SubSeq(b, h + 1, Len(a)), lo.c)
         IN  [r |-> lo.r \o hi.r, c |-> hi.c]

\* a - b, for a >= b
NatSub(a, b) ==
    IF b = <<>> THEN a
    ELSE NatTrim(NatSubB(a, NatPad(b, Len(a)), 0).r)

RECURSIVE NatCmpRange(_, _, _, _)
\* the digits lo..hi of a against those of b: -1, 0 or 1
NatCmpRange(a, b, lo, hi) ==
    IF lo = hi
    THEN (IF a[lo] < b[lo] THEN -1 ELSE IF a[lo] > b[lo] THEN 1 ELSE 0)
    ELSE LET mid == (lo + hi) \div 2
             top == NatCmpRange(a, b, mid + 1, hi)
         IN  IF top # 0 THEN top ELSE NatCmpRange(a, b, lo, mid)

\* a against b: -1, 0 or 1
NatCmp(a, b) ==
    IF Len(a) < Len(b) THEN -1
    ELSE IF Len(a) > Len(b) THEN 1
    ELSE IF a = <<>> THEN 0
    ELSE NatCmpRange(a, b, 1, Len(a))

RECURSIVE NatMulC(_, _, _)
\* a * k + c for a digit k: the digits and the carry
NatMulC(a, k, c) ==
    IF Len(a) = 1
    THEN LET t == a[1] * k + c
         IN  [r |-> <<t % Base>>, c |-> t \div Base]
    ELSE LET h == Len(a) \div 2
             lo == NatMulC(SubSeq(a, 1, h), k, c)
             hi == NatMulC(SubSeq(a, h + 1, Len(a)), k, lo.c)
         IN  [r |-> lo.r \o hi.r, c |-> hi.c]

\* a * k, for 0 <= k < Base
NatMulSmall(a, k) ==
    IF a = <<>> \/ k = 0 THEN <<>>
    ELSE LET m == NatMulC(a, k, 0)
         IN  IF m.c = 0 THEN m.r ELSE Append(m.r, m.c)

\* a * Base^k
NatShiftLimbs(a, k) == IF a = <<>> THEN a ELSE [i \in 1..k |-> 0] \o a

RECURSIVE NatMul(_, _)
NatMul(a, b) ==
    IF a = <<>> \/ b = <<>> THEN <<>>
    ELSE IF Len(b) = 1 THEN NatMulSmall(a, b[1])
    ELSE LET h == Len(b) \div 2
         IN  NatAdd(NatMul(a, NatTrim(SubSeq(b, 1, h))),
                    NatShiftLimbs(NatMul(a, SubSeq(b, h + 1, Len(b))), h))

\* a * 2^k
NatShl(a, k) ==
    IF a = <<>> THEN a
    ELSE LET p == 2 ^ (k % LimbBits)
             n == Len(a)
             body == [i \in 1..(n + 1) |->
                        (IF i <= n THEN (a[i] * p) % Base ELSE 0)
                        + (IF i > 1 THEN (a[i - 1] * p) \div Base ELSE 0)]
         IN  NatShiftLimbs(NatTrim(body), k \div LimbBits)

\* a \div 2^k
NatShr(a, k) ==
    IF Len(a) <= k \div LimbBits THEN <<>>
    ELSE LET c == SubSeq(a, k \div LimbBits + 1, Len(a))
             p == 2 ^ (k % LimbBits)
             n == Len(c)
         IN  NatTrim([i \in 1..n |->
                        c[i] \div p
                        + (IF i < n THEN (c[i + 1] % p) * (Base \div p)
                           ELSE 0)])

\* the number of binary digits of a
NatBits(a) ==
    IF a = <<>> THEN 0
    ELSE LimbBits * (Len(a) - 1)
         + (CHOOSE k \in 1..LimbBits :
               2 ^ (k - 1) <= a[Len(a)] /\ a[Len(a)] < 2 ^ k)

\* the number of zero binary digits at the low end of a, for a > 0
NatTrailingZeros(a) ==
    LET i == SetMin({j \in 1..Len(a) : a[j] # 0})
    IN  LimbBits * (i - 1)
        + (CHOOSE k \in 0..(LimbBits - 1) :
              a[i] % (2 ^ k) = 0 /\ a[i] % (2 ^ (k + 1)) # 0)

NatOdd(a) == a # <<>> /\ a[1] % 2 = 1

RECURSIVE NatDivC(_, _, _)
\* (c * Base^Len(a) + a) divided by a digit k > c: quotient and remainder
NatDivC(a, k, c) ==
    IF Len(a) = 1
    THEN LET t == c * Base + a[1]
         IN  [q |-> <<t \div k>>, r |-> t % k]
    ELSE LET h == Len(a) \div 2
             hi == NatDivC(SubSeq(a, h + 1, Len(a)), k, c)
             lo == NatDivC(SubSeq(a, 1, h), k, hi.r)
         IN  [q |-> lo.q \o hi.q, r |-> lo.r]

RECURSIVE NatDivBits(_, _, _, _)
\* the binary digits lo..hi of the quotient of r by d, for r < d * 2^(hi+1)
NatDivBits(r, d, lo, hi) ==
    IF lo = hi
    THEN LET s == NatShl(d, lo)
         IN  IF NatCmp(r, s) >= 0
             THEN [q |-> NatShl(<<1>>, lo), r |-> NatSub(r, s)]
             ELSE [q |-> <<>>, r |-> r]
    ELSE LET mid == (lo + hi) \div 2
             top == NatDivBits(r, d, mid + 1, hi)
             bot == NatDivBits(top.r, d, lo, mid)
         IN  [q |-> NatAdd(top.q, bot.q), r |-> bot.r]

\* a \div d, for d > 0
NatQuot(a, d) ==
    IF NatCmp(a, d) < 0 THEN <<>>
    ELSE IF Len(d) = 1 THEN NatTrim(NatDivC(a, d[1], 0).q)
    ELSE NatDivBits(a, d, 0, NatBits(a) - NatBits(d)).q

RECURSIVE NatPow5(_)
NatPow5(n) ==
    IF n = 0 THEN <<1>>
    ELSE LET p == NatPow5(n \div 2)
         IN  IF n % 2 = 1 THEN NatMulSmall(NatMul(p, p), 5)
             ELSE NatMul(p, p)

RECURSIVE NatOfDigits(_)
\* the natural a string of decimal digits denotes
NatOfDigits(s) ==
    IF Len(s) <= 4 THEN NatOfInt(DigitsValue(s))
    ELSE LET h == Len(s) \div 2
         IN  NatAdd(NatShl(NatMul(NatOfDigits(SubSeq(s, 1, Len(s) - h)),
                                  NatPow5(h)), h),
                    NatOfDigits(SubSeq(s, Len(s) - h + 1, Len(s))))

\* ------------------------------------------------------------------ ints
\* A Python int or long is its sign s and its magnitude m; 0 has s = 1
\* (k tells an int from a float, whose exponent e an int does not use).
Long(s, m) ==
    [k |-> "int", s |-> IF m = <<>> THEN 1 ELSE s, m |-> m, e |-> 0]

\* the int k, for |k| < 2^30
LongOfInt(k) == Long(IF k < 0 THEN -1 ELSE 1, NatOfInt(IF k < 0 THEN -k ELSE k))

\* int + int
LongAdd(a, b) ==
    IF a.s = b.s THEN Long(a.s, NatAdd(a.m, b.m))
    ELSE IF NatCmp(a.m, b.m) >= 0 THEN Long(a.s, NatSub(a.m, b.m))
    ELSE Long(b.s, NatSub(b.m, a.m))

\* ---------------------------------------------------------------- floats
\* A Python float is an IEEE 754 double: k = "fin" is the value
\* s * m * 2^e with m odd and below 2^53, or m = 0 and e = 0 (s tells 0.0
\* from -0.0); k = "inf" is s * infinity; k = "nan" is not a number.
MantBits == 53
MinExp == -1074
MaxBits == 1024

Fin(s, m, e) == [k |-> "fin", s |-> s, m |-> m, e |-> e]
Zero(s) == Fin(s, <<>>, 0)
Inf(s) == [k |-> "inf", s |-> s, m |-> <<>>, e |-> 0]
NaN == [k |-> "nan", s |-> 1, m |-> <<>>, e |-> 0]
IsNaN(a) == a.k = "nan"
IsInf(a) == a.k = "inf"
IsZero(a) == a.k = "fin" /\ a.m = <<>>

\* the double s * m * 2^e, for m < 2^53 and e >= MinExp
Canon(s, m, e) ==
    IF m = <<>> THEN Zero(s)
    ELSE IF NatBits(m) + e > MaxBits THEN Inf(s)
    ELSE Fin(s, NatShr(m, NatTrailingZeros(m)), e + NatTrailingZeros(m))

\* h with 2^h <= n / d < 2^(h + 1), for n > 0 and d > 0, g being the bit
\* length of n less that of d
QuotientTop(n, d, g) ==
    IF (IF g >= 0 THEN NatCmp(n, NatShl(d, g))
        ELSE NatCmp(NatShl(n, -g), d)) >= 0
    THEN g ELSE g - 1

\* the exponent of the last binary digit kept of a value of exponent e whose
\* first binary digit is that of 2^h
LastBit(h, e) ==
    IF h - (MantBits - 1) > MinExp - e THEN h - (MantBits - 1)
    ELSE MinExp - e

\* num divided by den > 0: the quotient q and the remainder r
WithRemainder(num, den, q) == [q |-> q, r |-> NatSub(num, NatMul(den, q))]
ShortDivRem(short) == [q |-> NatTrim(short.q), r |-> NatOfInt(short.r)]
NatDivRem(num, den) ==
    IF Len(den) = 1 THEN ShortDivRem(NatDivC(num, den[1], 0))
    ELSE WithRemainder(num, den, NatQuot(num, den))

\* q or q + 1: half is twice the remainder against the divisor (-1, 0, 1)
RoundHalfEven(q, half) ==
    IF half > 0 \/ (half = 0 /\ NatOdd(q)) THEN NatAdd(q, <<1>>) ELSE q

\* the natural nearest to num / den, ties to even, times s * 2^e
RoundDiv(s, dr, den, e) ==
    Canon(s, RoundHalfEven(dr.q, NatCmp(NatShl(dr.r, 1), den)), e)

\* s * (n / d) * 2^e rounded at the binary digit of exponent x + e
RoundAt(s, n, d, e, x) ==
    IF x < 0 THEN RoundDiv(s, NatDivRem(NatShl(n, -x), d), d, x + e)
    ELSE IF x = 0 THEN RoundDiv(s, NatDivRem(n, d), d, x + e)
    ELSE RoundDiv(s, WithRemainder(n, NatShl(d, x), NatQuot(NatShr(n, x), d)),
                  NatShl(d, x), x + e)

\* s * (n / d) * 2^e with 2^h <= n / d < 2^(h + 1)
RoundTop(s, n, d, e, h) ==
    IF h + e >= MaxBits THEN Inf(s)
    ELSE IF h + e < MinExp - 2 THEN Zero(s)
    ELSE RoundAt(s, n, d, e, LastBit(h, e))

\* the double nearest to s * (n / d) * 2^e, ties to the even significand,
\* for naturals n and d > 0: inf from 2^1024 on
RECURSIVE Round(_, _, _, _)
Round(s, n, d, e) ==
    IF n = <<>> THEN Zero(s)
    ELSE IF d = <<1>> /\ NatBits(n) <= MantBits /\ e >= MinExp
    THEN Canon(s, n, e)
    ELSE IF Len(d) = 1 /\ d[1] % 2 = 0
    THEN Round(s, n, <<d[1] \div 2>>, e - 1)
    ELSE RoundTop(s, n, d, e, QuotientTop(n, d, NatBits(n) - NatBits(d)))

\* the magnitude of a against that of b, both finite: -1, 0 or 1
MagCmp(a, b) ==
    IF a.m = <<>> \/ b.m = <<>>
    THEN (IF a.m # <<>> THEN 1 ELSE IF b.m # <<>> THEN -1 ELSE 0)
    ELSE IF NatBits(a.m) + a.e # NatBits(b.m) + b.e
    THEN (IF NatBits(a.m) + a.e > NatBits(b.m) + b.e THEN 1 ELSE -1)
    ELSE LET e0 == IF a.e < b.e THEN a.e ELSE b.e
         IN  NatCmp(NatShl(a.m, a.e - e0), NatShl(b.m, b.e - e0))

\* the double nearest to the int r times 2^e
FloatOfScaled(r, e) == Round(r.s, r.m, <<1>>, e)

\* float + float
FloatAdd(a, b) ==
    IF IsNaN(a) \/ IsNaN(b) THEN NaN
    ELSE IF IsInf(a) /\ IsInf(b) THEN (IF a.s = b.s THEN a ELSE NaN)
    ELSE IF IsInf(a) THEN a
    ELSE IF IsInf(b) THEN b
    ELSE IF IsZero(a) /\ IsZero(b)
    THEN Zero(IF a.s = -1 /\ b.s = -1 THEN -1 ELSE 1)
    ELSE IF IsZero(a) THEN b
    ELSE IF IsZero(b) THEN a
    ELSE IF a.e < b.e
    THEN FloatOfScaled(LongAdd(Long(a.s, a.m),
                               Long(b.s, NatShl(b.m, b.e - a.e))), a.e)
    ELSE FloatOfScaled(LongAdd(Long(a.s, NatShl(a.m, a.e - b.e)),
                               Long(b.s, b.m)), b.e)

\* float > float (false when either is nan)
FloatGT(a, b) ==
    /\ ~IsNaN(a) /\ ~IsNaN(b)
    /\ IF IsInf(a) /\ IsInf(b) THEN a.s > b.s
       ELSE IF IsInf(a) THEN a.s > 0
       ELSE IF IsInf(b) THEN b.s < 0
       ELSE IF IsZero(a) /\ IsZero(b) THEN FALSE
       ELSE IF a.s # b.s THEN a.s > b.s
       ELSE IF a.s > 0 THEN MagCmp(a, b) > 0
       ELSE MagCmp(a, b) < 0

\* float / k for an int k > 0
FloatDivInt(a, k) ==
    IF a.k # "fin" THEN a ELSE Round(a.s, a.m, NatOfInt(k), a.e)

\* ----------------------------------------------------- int() and float()
\* int(value): ok = FALSE stands for ValueError.  Blanks are skipped around
\* the text and between the sign and the digits.
int(s) ==
    LET t == strip(s)
        body == IF HasSign(t) THEN lstrip(Tail(t)) ELSE t
    IN  IF body # <<>> /\ AllDigits(body)
        THEN [ok |-> TRUE,
              val |-> Long(SignOf(t), NatOfDigits(Significant(body)))]
        ELSE [ok |-> FALSE, val |-> Long(1, <<>>)]

Lower(c) ==
    CASE c = "I" -> "i" [] c = "N" -> "n" [] c = "F" -> "f"
      [] c = "T" -> "t" [] c = "Y" -> "y" [] c = "A" -> "a"
      [] OTHER -> c

LowerAll(s) == [i \in 1..Len(s) |-> Lower(s[i])]

\* the index of the first character of s that is in S, or Len(s) + 1
Find(s, S) ==
    IF \A i \in 1..Len(s) : s[i] \notin S THEN Len(s) + 1
    ELSE SetMin({i \in 1..Len(s) : s[i] \in S})

\* the double nearest to sign * sig * 10^scale, for digits sig without
\* leading zeros: a decimal of 10^309 or more is inf and one below 10^-324
\* is zero whatever its digits
Decimal(sign, sig, scale) ==
    IF Len(sig) + scale <= -324 THEN Zero(sign)
    ELSE IF Len(sig) + scale >= 310 THEN Inf(sign)
    ELSE IF scale >= 0
    THEN Round(sign, NatMul(NatOfDigits(sig), NatPow5(scale)), <<1>>, scale)
    ELSE Round(sign, NatOfDigits(sig), NatPow5(-scale), scale)

\* sign * sig * 10^(esign * ed - places), for digits sig and ed without
\* leading zeros; an exponent of more than six digits decides alone
ScaledDecimal(sign, sig, places, esign, ed) ==
    IF sig = <<>> THEN Zero(sign)
    ELSE IF Len(ed) > 6 THEN (IF esign > 0 THEN Inf(sign) ELSE Zero(sign))
    ELSE Decimal(sign, sig, esign * DigitsValue(ed) - places)

\* digits ip, a dot or none, digits fp, and, when hasExp, e and the text expo
FloatParts(sign, ip, fp, hasExp, expo) ==
    IF /\ AllDigits(ip) /\ AllDigits(fp)
       /\ Len(ip) + Len(fp) >= 1
       /\ hasExp => Unsigned(expo) # <<>> /\ AllDigits(Unsigned(expo))
    THEN [ok |-> TRUE,
          val |-> ScaledDecimal(sign, Significant(ip \o fp), Len(fp),
                                SignOf(expo), Significant(Unsigned(expo)))]
    ELSE [ok |-> FALSE, val |-> Zero(1)]

\* the text mant before the exponent, its first dot at dot
FloatMantissa(sign, mant, dot, hasExp, expo) ==
    FloatParts(sign, SubSeq(mant, 1, dot - 1),
               SubSeq(mant, dot + 1, Len(mant)), hasExp, expo)

\* the text body after the sign, its first e or E at e
FloatExponent(sign, body, e) ==
    FloatMantissa(sign, SubSeq(body, 1, e - 1),
                  Find(SubSeq(body, 1, e - 1), {"."}), e <= Len(body),
                  SubSeq(body, e + 1, Len(body)))

FloatBody(sign, body) ==
    IF LowerAll(body) \in {<<"i", "n", "f">>,
                           <<"i", "n", "f", "i", "n", "i", "t", "y">>}
    THEN [ok |-> TRUE, val |-> Inf(sign)]
    ELSE IF LowerAll(body) = <<"n", "a", "n">>
    THEN [ok |-> TRUE, val |-> NaN]
    ELSE FloatExponent(sign, body, Find(body, {"e", "E"}))

FloatText(t) == FloatBody(SignOf(t), Unsigned(t))

\* float(value): ok = FALSE stands for ValueError.  The text is inf,
\* infinity or nan in any case, or digits with at most one dot and an
\* optional exponent, after an optional sign and between blanks; the value
\* is the double nearest to the decimal.
float(s) == FloatText(strip(s))

\* helpers.try_except_typecast(func, value, None), func given by its result
try_except_typecast(cast) == IF cast.ok THEN Some(cast.val) ELSE NONE

\* ------------------------------------------------------------- RenderRow
EmptyRender ==
    [uid |-> <<>>, app |-> <<>>, renderer |-> <<>>, num_frames |-> 0,
     success |-> FALSE, render_time |-> NONE, peak_ram |-> NONE,
     peak_cpu |-> NONE]

\* RenderRow(*row): err is "none", or the exception the constructor raises
\* ("TypeError": the row has not 8 fields; "ValueError": int(num_frames)).
RenderRowLenient(row) ==
    IF Len(row) # 8
    THEN [err |-> "TypeError", render |-> EmptyRender]
    ELSE [err |-> "none",
          render |->
            [uid |-> row[1], app |-> row[2], renderer |-> row[3],
             num_frames |-> int(row[4]).val,
             success |-> (strip(row[5]) = <<"t", "r", "u", "e">>),
             render_time |-> try_except_typecast(int(row[6])),
             peak_ram |-> try_except_typecast(float(row[7])),
             peak_cpu |-> try_except_typecast(float(row[8]))]]

RenderRow(row) ==
    IF Len(row) # 8
    THEN [err |-> "TypeError", render |-> EmptyRender]
    ELSE IF ~int(row[4]).ok
    THEN [err |-> "ValueError", render |-> EmptyRender]
    ELSE [err |-> "none",
          render |->
            [uid |-> row[1], app |-> row[2], renderer |-> row[3],
             num_frames |-> int(row[4]).val,
             success |-> (strip(row[5]) = <<"t", "r", "u", "e">>),
             render_time |-> try_except_typecast(int(row[6])),
             peak_ram |-> try_except_typecast(float(row[7])),
             peak_cpu |-> try_except_typecast(float(row[8]))]]

\* ----------------------------------------------------------- filter_rows
\* Python truth value of a filter argument: None and '' are false
TruthyStr(o) == ~IsNone(o) /\ Val(o) # <<>>

skip_render(render, f) ==
    \/ /\ TruthyStr(f.app) /\ TruthyStr(f.renderer)
       /\ (Val(f.app) # render.app \/ Val(f.renderer) # render.renderer)
    \/ TruthyStr(f.app) /\ Val(f.app) # render.app
    \/ TruthyStr(f.renderer) /\ Val(f.renderer) # render.renderer

\* the row is yielded by filter_rows
yields(render, f) == ~skip_render(render, f) /\ (render.success \/ f.failed)

\* ----------------------------------------------------------- RenderStats
RenderStatsInit ==
    [count |-> 0,
     total_time |-> [count |-> 0, value |-> LongOfInt(0)],
     total_cpu |-> [count |-> 0, value |-> LongOfInt(0)],
     total_ram |-> [count |-> 0, value |-> LongOfInt(0)],
     max_cpu |-> [uid |-> <<>>, value |-> LongOfInt(0)],
     max_ram |-> [uid |-> <<>>, value |-> LongOfInt(0)]]

\* a + b and a > b for numbers one of which is a float: an int among them
\* (here the 0 of __init__, and always below 2^1024) is converted to float
FloatOfInt(x) == IF x.k = "int" THEN Round(x.s, x.m, <<1>>, 0) ELSE x
Add(a, b) ==
    IF a.k = "int" /\ b.k = "int" THEN LongAdd(a, b)
    ELSE FloatAdd(FloatOfInt(a), FloatOfInt(b))
GT(a, b) == FloatGT(FloatOfInt(a), FloatOfInt(b))

\* Python truth value of an optional number: None and 0 are false (nan and
\* inf are true)
TruthyInt(o) == ~IsNone(o) /\ Val(o).m # <<>>
TruthyFloat(o) == ~IsNone(o) /\ ~IsZero(Val(o))

Accumulate(total, truthy, add) ==
    IF truthy THEN [count |-> total.count + 1, value |-> add] ELSE total

NewMax(max, truthy, uid, v) ==
    IF truthy /\ GT(v, max.value) THEN [uid |-> uid, value |-> v] ELSE max

updateCountsTimed(st, render) ==
    [count |-> IF TruthyInt(render.render_time) THEN st.count + 1 ELSE st.count,
     total_time |->
        Accumulate(st.total_time, TruthyInt(render.render_time),
                   Add(st.total_time.value, Val(render.render_time))),
     total_cpu |->
        Accumulate(st.total_cpu, TruthyFloat(render.peak_cpu),
                   Add(st.total_cpu.value, Val(render.peak_cpu))),
     total_ram |->
        Accumulate(st.total_ram, TruthyFloat(render.peak_ram),
                   Add(st.total_ram.value, Val(render.peak_ram))),
     max_cpu |->
        NewMax(st.max_cpu, TruthyFloat(render.peak_cpu), render.uid,
               Val(render.peak_cpu)),
     max_ram |->
        NewMax(st.max_ram, TruthyFloat(render.peak_ram), render.uid,
               Val(render.peak_ram))]

update(st, render) ==
    [count |-> st.count + 1,
     total_time |->
        Accumulate(st.total_time, TruthyInt(render.render_time),
                   Add(st.total_time.value, Val(render.render_time))),
     total_cpu |->
        Accumulate(st.total_cpu, TruthyFloat(render.peak_cpu),
                   Add(st.total_cpu.value, Val(render.peak_cpu))),
     total_ram |->
        Accumulate(st.total_ram, TruthyFloat(render.peak_ram),
                   Add(st.total_ram.value, Val(render.peak_ram))),
     max_cpu |->
        NewMax(st.max_cpu, TruthyFloat(render.peak_cpu), render.uid,
               Val(render.peak_cpu)),
     max_ram |->
        NewMax(st.max_ram, TruthyFloat(render.peak_ram), render.uid,
               Val(render.peak_ram))]

\* the result of a property: err is "none" or the exception raised
Number(r) == [err |-> "none", val |-> r]
Raise(e) == [err |-> e, val |-> LongOfInt(0)]

\* int / int under true division, for k >= 0: the double nearest to the
\* quotient, or OverflowError when that is beyond the range of a float
TrueDiv(x, k) ==
    IF k = 0 THEN Raise("ZeroDivisionError")
    ELSE LET quotient == Round(x.s, x.m, NatOfInt(k), 0)
         IN  IF IsInf(quotient) THEN Raise("OverflowError")
             ELSE Number(quotient)

\* float / int, for k >= 0
FloatDiv(x, k) ==
    IF k = 0 THEN Raise("ZeroDivisionError") ELSE Number(FloatDivInt(x, k))

count(st) == st.count

avgtime(st) ==
    IF st.total_time.count # 0
    THEN LET secs == TrueDiv(st.total_time.value, 1000)
         IN  IF secs.err # "none" THEN secs
             ELSE FloatDiv(secs.val, st.total_time.count)
    ELSE Number(LongOfInt(0))

avgcpu(st) ==
    IF st.total_cpu.count # 0
    THEN FloatDiv(st.total_cpu.value, st.total_cpu.count)
    ELSE Number(LongOfInt(0))

avgram(st) ==
    IF st.total_ram.count # 0
    THEN FloatDiv(st.total_ram.value, st.total_ram.count)
    ELSE Number(LongOfInt(0))

maxram(st) == st.max_ram.uid
maxcpu(st) == st.max_cpu.uid

OutputTypes ==
    {"count", "avgtime", "avgcpu", "avgram", "maxram", "maxcpu", "summary"}

\* what print_spec does: status is "printed" and out the values printed, one
\* per line (their text form is not modelled), or status is the exception
\* of the first property that raises, no line being printed
PrintedLines(out) == [status |-> "printed", out |-> out]
NothingPrinted(e) == [status |-> e, out |-> <<>>]

\* "{}".format(value) for the value of an average
PrintAverage(a) ==
    IF a.err # "none" THEN NothingPrinted(a.err) ELSE PrintedLines(<<a.val>>)

\* "{}\n{}\n{}\n{}\n{}".format(...) for the values of the five properties
PrintSummary(t, c, r, mr, mc) ==
    IF t.err # "none" THEN NothingPrinted(t.err)
    ELSE IF c.err # "none" THEN NothingPrinted(c.err)
    ELSE IF r.err # "none" THEN NothingPrinted(r.err)
    ELSE PrintedLines(<<t.val, c.val, r.val, mr, mc>>)

print_spec(st, spec) ==
    CASE spec = "summary" ->
            PrintSummary(avgtime(st), avgcpu(st), avgram(st),
                         maxram(st), maxcpu(st))
      [] spec = "count" -> PrintedLines(<<count(st)>>)
      [] spec = "avgtime" -> PrintAverage(avgtime(st))
      [] spec = "avgcpu" -> PrintAverage(avgcpu(st))
      [] spec = "avgram" -> PrintAverage(avgram(st))
      [] spec = "maxram" -> PrintedLines(<<maxram(st)>>)
      [] spec = "maxcpu" -> PrintedLines(<<maxcpu(st)>>)

\* ---------------------------------------------------------- file pattern
\* re.match(r'renders_\d{4}-\d{2}-\d{2}.csv', rf): "DIGIT" is \d, "ANY" is
\* the unescaped dot; re.match anchors the pattern at the start only.
FilePattern ==
    <<"r", "e", "n", "d", "e", "r", "s", "_",
      "DIGIT", "DIGIT", "DIGIT", "DIGIT", "-", "DIGIT", "DIGIT", "-",
      "DIGIT", "DIGIT", "ANY", "c", "s", "v">>

ElemMatch(p, c) ==
    CASE p = "DIGIT" -> c \in Digits
      [] p = "ANY" -> c # "\n"
      [] OTHER -> c = p

re_match(pat, s) ==
    /\ Len(s) >= Len(pat)
    /\ \A i \in 1..Len(pat) : ElemMatch(pat[i], s[i])

\* ---------------------------------------------------------------- inputs
RendersPrefix == <<"r", "e", "n", "d", "e", "r", "s", "_">>
DotCsv == <<".", "c", "s", "v">>
Date1 == <<"2", "0", "2", "4", "-", "0", "1", "-", "0", "1">>
Date2 == <<"2", "0", "2", "4", "-", "0", "1", "-", "0", "2">>

Names ==
    { RendersPrefix \o Date1 \o DotCsv,
      RendersPrefix \o Date1 \o DotCsv \o <<".", "b", "a", "k">>,
      RendersPrefix \o Date2 \o <<"x", "c", "s", "v">>,
      RendersPrefix \o <<"2", "4", "-", "0", "1", "-", "0", "1">> \o DotCsv,
      <<"x">> \o RendersPrefix \o Date1 \o DotCsv }

\* os.listdir(path): the names of a directory, each once, in some order
Listings ==
    UNION { { l \in [1..k -> Names] :
                \A i, j \in 1..k : i # j => l[i] # l[j] } : k \in 0..MaxFiles }

Maya == <<"M", "a", "y", "a">>
Max == <<"M", "a", "x">>
Arnold == <<"A", "r", "n", "o", "l", "d">>
VRay == <<"V", "R", "a", "y">>
Id(c) == <<"i", "d", c>>

Zeros(k) == [i \in 1..k |-> "0"]

\* a render time of 313 digits, 10^312
HugeTime == <<"1">> \o Zeros(312)

\* the rows a log file may hold, as csv.reader returns them
Rows ==
    << <<Id("1"), Maya, Arnold, <<"1", "0">>, <<"t", "r", "u", "e">>,
         <<"5", "0", "0", "0">>, <<"2", ".", "5">>, <<"8", "0", ".", "0">> >>,
       <<Id("2"), Maya, Arnold, <<"8">>, <<"f", "a", "l", "s", "e">>,
         <<"1", "2", ".", "5">>, <<"0", ".", "0">>, <<>> >>,
       <<Id("3"), Maya, VRay, <<"x", "1">>, <<"t", "r", "u", "e">>,
         <<"1", "0", "0">>, <<"1", ".", "0">>, <<"1", ".", "0">> >>,
       <<Id("4"), Max, Arnold, <<"5">>, <<VT, "t", "r", "u", "e", " ">>,
         <<"0">>, <<"0">>, <<"0", "e", "0">> >>,
       <<Id("5"), Maya, Arnold, <<"+", " ", "3">>, <<"t", "r", "u", "e">>,
         <<"5", "0", "0", "0", VT>>, <<"2", "5", "e", "-", "1">>,
         <<"8", "E", "1">> >>,
       <<Id("6"), Maya, VRay, <<"4">>, <<"t", "r", "u", "e">>,
         HugeTime, <<"-", "1", ".", "5">>, <<"I", "n", "f">> >>,
       <<Id("7"), Maya, Arnold, <<"4">>, <<"t", "r", "u", "e">>,
         <<"1", "0">>, <<"1">> >> >>

\* RenderRow(*row) for each of these rows
Decoded == [k \in DOMAIN Rows |-> RenderRow(Rows[k])]

AppArgs == {NONE, Some(<<>>), Some(Maya)}
RendererArgs == {NONE, Some(<<>>), Some(Arnold)}

\* ----------------------------------------------------------------- state
NoFilters == [app |-> NONE, renderer |-> NONE, failed |-> FALSE]
NoResult == [call |-> "none", status |-> "none", out |-> <<>>]

Init ==
    /\ pc = "idle"
    /\ stats = NONE
    /\ filters = NoFilters
    /\ listing = <<>>
    /\ filenames = <<>>
    /\ openFiles = {}
    /\ rowsRead = 0
    /\ seen = <<>>
    /\ folded = <<>>
    /\ completed = FALSE
    /\ result = NoResult

\* leaving the with block of filter_rows closes the file
ExitWithLeak(open, fn) == open

ExitWith(open, fn) == open \ {fn}

\* run_parser is called: lines 70-74
RunParser(app, renderer, failed) ==
    /\ pc = "idle"
    /\ stats' = Some(RenderStatsInit)
    /\ filters' = [app |-> app, renderer |-> renderer, failed |-> failed]
    /\ rowsRead' = 0
    /\ seen' = <<>>
    /\ folded' = <<>>
    /\ pc' = "listdir"
    /\ result' = [call |-> "run_parser", status |-> "pending", out |-> <<>>]
    /\ UNCHANGED <<listing, filenames, openFiles, completed>>

\* run_parser, line 77: os.listdir(path) returns the names in the directory
ListDir(names) ==
    /\ pc = "listdir"
    /\ listing' = names
    /\ pc' = "select"
    /\ UNCHANGED <<stats, filters, filenames, openFiles, rowsRead, seen,
                   folded, completed, result>>

\* run_parser, line 77: os.listdir(path) raises, path is no directory
ListDirOSError ==
    /\ pc = "listdir"
    /\ pc' = "idle"
    /\ result' = [call |-> "run_parser", status |-> "OSError", out |-> <<>>]
    /\ UNCHANGED <<stats, filters, listing, filenames, openFiles, rowsRead,
                   seen, folded, completed>>

Selected(names) == SelectSeq(names, LAMBDA rf : re_match(FilePattern, rf))

\* run_parser, line 77: the list of the properly named files
SelectFiles ==
    /\ pc = "select"
    /\ filenames' = Selected(listing)
    /\ listing' = <<>>
    /\ pc' = "loop"
    /\ UNCHANGED <<stats, filters, openFiles, rowsRead, seen, folded,
                   completed, result>>

\* run_parser, line 79-80, and filter_rows, line 26: the next file is opened
OpenFile ==
    /\ pc = "loop"
    /\ filenames # <<>>
    /\ openFiles' = openFiles \cup {Head(filenames)}
    /\ filenames' = Tail(filenames)
    /\ pc' = "stream"
    /\ UNCHANGED <<stats, filters, listing, rowsRead, seen, folded,
                   completed, result>>

\* filter_rows, line 26: open raises, the name is a directory or the file
\* cannot be read; the exception leaves run_parser with no file opened
OpenFileIOError ==
    /\ pc = "loop"
    /\ filenames # <<>>
    /\ filenames' = <<>>
    /\ pc' = "idle"
    /\ result' = [call |-> "run_parser", status |-> "IOError", out |-> <<>>]
    /\ UNCHANGED <<stats, filters, listing, openFiles, rowsRead, seen, folded,
                   completed>>

TheOpenFile == CHOOSE fn \in openFiles : TRUE

\* filter_rows, line 28: csv.reader raises _csv.Error on the next line (a
\* NUL byte); no row is made, the with block closes the file and the
\* exception leaves run_parser
ReaderError ==
    /\ pc = "stream"
    /\ openFiles' = ExitWith(openFiles, TheOpenFile)
    /\ filenames' = <<>>
    /\ pc' = "idle"
    /\ result' = [call |-> "run_parser", status |-> "Error", out |-> <<>>]
    /\ UNCHANGED <<stats, filters, listing, rowsRead, seen, folded, completed>>

\* filter_rows, lines 28-46, and run_parser, line 82: one row of the open
\* file; an exception leaves run_parser, whose locals are dropped
ReadRow(k) ==
    /\ pc = "stream"
    /\ rowsRead < MaxRows
    /\ rowsRead' = rowsRead + 1
    /\ seen' = Append(seen, k)
    /\ LET r == Decoded[k]
       IN  IF r.err # "none"
           THEN /\ openFiles' = ExitWith(openFiles, TheOpenFile)
                /\ pc' = "idle"
                /\ filenames' = <<>>
                /\ result' = [call |-> "run_parser", status |-> r.err,
                              out |-> <<>>]
                /\ UNCHANGED <<stats, folded>>
           ELSE IF yields(r.render, filters)
           THEN /\ stats' = Some(update(Val(stats), r.render))
                /\ folded' = Append(folded, r.render)
                /\ UNCHANGED <<openFiles, pc, result, filenames>>
           ELSE UNCHANGED <<stats, folded, openFiles, pc, result, filenames>>
    /\ UNCHANGED <<filters, listing, completed>>

\* filter_rows: the reader is exhausted, the with block is left
EndOfFile ==
    /\ pc = "stream"
    /\ openFiles' = ExitWith(openFiles, TheOpenFile)
    /\ pc' = "loop"
    /\ UNCHANGED <<stats, filters, listing, filenames, rowsRead, seen, folded,
                   completed, result>>

\* run_parser: the loop over the files is over, the call returns
ReturnRun ==
    /\ pc = "loop"
    /\ filenames = <<>>
    /\ pc' = "idle"
    /\ completed' = TRUE
    /\ result' = [call |-> "run_parser", status |-> "returned", out |-> <<>>]
    /\ UNCHANGED <<stats, filters, listing, filenames, openFiles, rowsRead,
                   seen, folded>>

\* show_stats(output_type)
ShowStats(output_type) ==
    /\ pc = "idle"
    /\ result' =
          IF stats = NONE
          THEN [call |-> "show_stats", status |-> "TypeError", out |-> <<>>]
          ELSE LET printed == print_spec(Val(stats), output_type)
               IN  [call |-> "show_stats", status |-> printed.status,
                    out |-> printed.out]
    /\ UNCHANGED <<pc, stats, filters, listing, filenames, openFiles,
                   rowsRead, seen, folded, completed>>

Next ==
    \/ \E app \in AppArgs, renderer \in RendererArgs, failed \in BOOLEAN :
          RunParser(app, renderer, failed)
    \/ \E names \in Listings : ListDir(names)
    \/ ListDirOSError
    \/ SelectFiles
    \/ OpenFile
    \/ OpenFileIOError
    \/ \E k \in DOMAIN Rows : ReadRow(k)
    \/ ReaderError
    \/ EndOfFile
    \/ ReturnRun
    \/ \E output_type \in OutputTypes : ShowStats(output_type)

Spec == Init /\ [][Next]_vars

\* ------------------------------------------- what the history implies

RECURSIVE DecodedPrefix(_)
\* the records of the rows that precede the first row that fails to decode
DecodedPrefix(rows) ==
    IF rows = <<>> \/ Decoded[Head(rows)].err # "none"
    THEN <<>>
    ELSE <<Decoded[Head(rows)].render>> \o DecodedPrefix(Tail(rows))

RECURSIVE FoldUpdate(_, _)
FoldUpdate(st, renders) ==
    IF renders = <<>> THEN st
    ELSE FoldUpdate(update(st, Head(renders)), Tail(renders))

Range(q) == {q[i] : i \in 1..Len(q)}

TimeOf(r) == r.render_time
CpuOf(r) == r.peak_cpu
RamOf(r) == r.peak_ram

PresentTime == {i \in 1..Len(folded) : ~IsNone(TimeOf(folded[i]))}
PresentCpu == {i \in 1..Len(folded) : ~IsNone(CpuOf(folded[i]))}
PresentRam == {i \in 1..Len(folded) : ~IsNone(RamOf(folded[i]))}

RECURSIVE SumTime(_)
SumTime(k) ==
    IF k = 0 THEN LongOfInt(0)
    ELSE IF k \in PresentTime
    THEN Add(SumTime(k - 1), Val(TimeOf(folded[k])))
    ELSE SumTime(k - 1)

RECURSIVE SumCpu(_)
SumCpu(k) ==
    IF k = 0 THEN LongOfInt(0)
    ELSE IF k \in PresentCpu
    THEN Add(SumCpu(k - 1), Val(CpuOf(folded[k])))
    ELSE SumCpu(k - 1)

RECURSIVE SumRam(_)
SumRam(k) ==
    IF k = 0 THEN LongOfInt(0)
    ELSE IF k \in PresentRam
    THEN Add(SumRam(k - 1), Val(RamOf(folded[k])))
    ELSE SumRam(k - 1)

HighestCpu == {i \in PresentCpu : \A j \in PresentCpu :
                  ~FloatGT(Val(CpuOf(folded[j])), Val(CpuOf(folded[i])))}
HighestRam == {i \in PresentRam : \A j \in PresentRam :
                  ~FloatGT(Val(RamOf(folded[j])), Val(RamOf(folded[i])))}

Earliest(S) == CHOOSE i \in S : \A j \in S : i <= j

\* ----------------------------------------------------------------- C1
\* the filter predicate as the claim states it: a filter that is set (not
\* None) must equal the field exactly
ClaimAccept(r, f) ==
    /\ IsNone(f.app) \/ Val(f.app) = r.app
    /\ IsNone(f.renderer) \/ Val(f.renderer) = r.renderer
    /\ r.success \/ f.failed

\* C1: filter_rows yields a decoded record if and only if every filter that
\* is set equals the record's field exactly and the record succeeded or
\* failed records are included: the records folded are exactly the decoded
\* rows the stated predicate accepts.
C1_YieldsIffCriteria ==
    folded = SelectSeq(DecodedPrefix(seen), LAMBDA r : ClaimAccept(r, filters))

\* ----------------------------------------------------------------- C2
\* C2: count equals the number of rows for which the filter returned true,
\* whatever optional fields those rows carry; every accepted record is
\* folded once and no rejected record is folded.
C2_CountIsAccepted ==
    stats # NONE =>
        LET accepted ==
                SelectSeq(DecodedPrefix(seen), LAMBDA r : yields(r, filters))
        IN  /\ count(Val(stats)) = Len(accepted)
            /\ folded = accepted

C2_Witness ==
    /\ result.call = "run_parser" /\ result.status = "returned"
    /\ Len(folded) >= 2
    /\ Len(seen) > Len(folded)
    /\ \E i \in 1..Len(folded) : IsNone(TimeOf(folded[i]))
    /\ count(Val(stats)) = Len(folded)

\* ----------------------------------------------------------------- C3
\* C3: for each metric the valid-sample count is the number of folded
\* records whose field decoded to a number, and the sum is the sum of
\* exactly those values.
C3_ValidSamples ==
    stats # NONE =>
        LET st == Val(stats)
        IN  /\ st.total_time.count = Cardinality(PresentTime)
            /\ st.total_time.value = SumTime(Len(folded))
            /\ st.total_cpu.count = Cardinality(PresentCpu)
            /\ st.total_cpu.value = SumCpu(Len(folded))
            /\ st.total_ram.count = Cardinality(PresentRam)
            /\ st.total_ram.value = SumRam(Len(folded))

\* ----------------------------------------------------------------- C4
\* C4: maxram (maxcpu) is the id of a folded record with the highest
\* peak_ram (peak_cpu) among the folded records that have the field, and is
\* the empty string only if no folded record has the field.
C4_MaxIsHighest ==
    stats # NONE =>
        LET st == Val(stats)
        IN  /\ PresentRam # {} =>
                  \E i \in HighestRam : maxram(st) = folded[i].uid
            /\ maxram(st) = <<>> => PresentRam = {}
            /\ PresentCpu # {} =>
                  \E i \in HighestCpu : maxcpu(st) = folded[i].uid
            /\ maxcpu(st) = <<>> => PresentCpu = {}

\* ----------------------------------------------------------------- C5
\* two or more folded records share the highest value of the field
TiedRam == Cardinality(HighestRam) >= 2
TiedCpu == Cardinality(HighestCpu) >= 2

\* among records that share the highest value the one folded earliest is
\* reported
EarliestOfTiedWins ==
    stats # NONE =>
        /\ TiedRam =>
              maxram(Val(stats)) = folded[Earliest(HighestRam)].uid
        /\ TiedCpu =>
              maxcpu(Val(stats)) = folded[Earliest(HighestCpu)].uid

\* the field is present and equal to the value of the maximum
EqualsMax(field, max) ==
    /\ ~IsNone(field)
    /\ ~IsNaN(Val(field))
    /\ ~GT(Val(field), max.value)
    /\ ~GT(max.value, Val(field))

\* this step folds one more record
FoldsRecord ==
    stats # NONE /\ stats' # NONE /\ Len(folded') = Len(folded) + 1

\* the record this step folds
FoldedRecord == folded'[Len(folded')]

\* C5: whenever two or more folded records share the highest peak_ram
\* (peak_cpu), maxram (maxcpu) is the id of the one of them folded earliest;
\* and a step that folds a record whose peak_ram (peak_cpu) equals the
\* current maximum leaves the id and the value of that maximum unchanged.
C5_FirstSeenWins ==
    [][/\ EarliestOfTiedWins'
       /\ FoldsRecord =>
             /\ EqualsMax(RamOf(FoldedRecord), Val(stats).max_ram) =>
                   Val(stats').max_ram = Val(stats).max_ram
             /\ EqualsMax(CpuOf(FoldedRecord), Val(stats).max_cpu) =>
                   Val(stats').max_cpu = Val(stats).max_cpu]_vars

\* ----------------------------------------------------------------- C6
\* the average is a number: 0 when the divisor is 0, else the value, itself
\* a number, divided by the divisor
IsQuotient(avg, value, divisor) ==
    /\ avg.err = "none"
    /\ divisor = 0 => avg.val = LongOfInt(0)
    /\ divisor # 0 =>
          value.err = "none" /\ avg = FloatDiv(value.val, divisor)

\* C6: no average raises an error of the division; each is 0 when its own
\* valid-sample count is 0 and otherwise its own sum divided by its own
\* valid-sample count (avgtime also by 1000).
C6_AveragesOwnCount ==
    stats # NONE =>
        LET st == Val(stats)
        IN  /\ IsQuotient(avgtime(st), TrueDiv(st.total_time.value, 1000),
                          st.total_time.count)
            /\ IsQuotient(avgcpu(st), Number(st.total_cpu.value),
                          st.total_cpu.count)
            /\ IsQuotient(avgram(st), Number(st.total_ram.value),
                          st.total_ram.count)

\* ----------------------------------------------------------------- C7
\* C7: show_stats fails with the not-ready error whenever no run_parser
\* call has yet run to completion.
C7_NotReadyBeforeCompletedRun ==
    (result.call = "show_stats" /\ ~completed) => result.status = "TypeError"

\* ----------------------------------------------------------------- C8
\* the name as the claim states it: the whole name is renders_, 4 digits,
\* '-', 2 digits, '-', 2 digits and the literal '.csv'
ClaimPattern ==
    <<"r", "e", "n", "d", "e", "r", "s", "_",
      "DIGIT", "DIGIT", "DIGIT", "DIGIT", "-", "DIGIT", "DIGIT", "-",
      "DIGIT", "DIGIT", ".", "c", "s", "v">>

ProperlyNamed(s) == Len(s) = Len(ClaimPattern) /\ re_match(ClaimPattern, s)

\* C8: run_parser selects a file of the listing if and only if its whole
\* name is renders_YYYY-MM-DD.csv.
C8_SelectsExactlyProperNames ==
    [][pc = "select" =>
          \A i \in 1..Len(listing) :
              (listing[i] \in Range(filenames')) <=> ProperlyNamed(listing[i])
      ]_vars

\* ----------------------------------------------------------------- C9
\* the rows whose frameCount field is no integer
MalformedFrameCount ==
    {k \in DOMAIN Rows : Len(Rows[k]) = 8 /\ ~int(Rows[k][4]).ok}

\* C9: a row whose frameCount is no integer ends the run with an error at
\* that row, whether or not the row would pass the filter: it is the last
\* row read, nothing is folded after it, and the accumulator holds exactly
\* the accepted records that precede it.
C9_MalformedRowAborts ==
    \A i \in 1..Len(seen) :
        seen[i] \in MalformedFrameCount =>
            /\ i = Len(seen)
            /\ pc = "idle"
            /\ result.call = "run_parser" => result.status = "ValueError"
            /\ LET before == SelectSeq(DecodedPrefix(SubSeq(seen, 1, i - 1)),
                                       LAMBDA r : yields(r, filters))
               IN  /\ folded = before
                   /\ Val(stats) = FoldUpdate(RenderStatsInit, before)

C9_Witness ==
    /\ result.call = "run_parser" /\ result.status = "ValueError"
    /\ Len(seen) = 3
    /\ Len(folded) = 1
    /\ TruthyStr(filters.renderer)
    /\ Rows[seen[3]][3] # Val(filters.renderer)
    /\ count(Val(stats)) = 1

\* ---------------------------------------------------------------- C10
\* C10: at most one log file is open at any moment, and none is open
\* outside the streaming of a file: not between two files, not after
\* run_parser has returned and not after open, the reader or the decoding
\* of a row has raised.
C10_OneFileOpen ==
    /\ Cardinality(openFiles) <= 1
    /\ pc # "stream" => openFiles = {}

C10_Witness ==
    /\ result.call = "run_parser"
    /\ result.status \in {"ValueError", "TypeError", "Error"}
    /\ seen # <<>>
    /\ openFiles = {}
====
